---- MODULE Spec2Model ----
(***************************************************************************)
(* A model of tinyosc (src/tinyosc.c): the OSC 1.0 message writer          *)
(* tosc_write, the envelope reader tosc_read and the argument extractors   *)
(* tosc_getNextInt32 / Float / String / Blob.                              *)
(*                                                                         *)
(* Memory is a function from byte offsets (relative to the buffer pointer  *)
(* handed to the library) to bytes 0..255.  For tosc_write the caller's    *)
(* buffer is [0, cap) and DOMAIN mem reaches a little further, into the    *)
(* memory after it; for tosc_read of a received datagram DOMAIN mem is the *)
(* buffer [0, len).  A load from outside DOMAIN mem finds a junk byte.     *)
(* A 32-bit word is kept as the int32 with the same bit pattern, and       *)
(* uint32_t arithmetic is done modulo 2^32 on it.                          *)
(***************************************************************************)
EXTENDS Integers, Sequences, FiniteSets, TLC

VARIABLES
  pc,       \* "start" | "ready" | "failed" | "fault" | "read" | "rejected" | "done"
  driven,   \* TRUE: the extractors are called as the decoded format dictates
  mem,      \* the bytes at and around the buffer
  junk,     \* the bytes that memory the model does not know may hold
  cap,      \* tosc_write: len, the capacity of the buffer
  address,  \* tosc_write: the address string (without its NUL)
  format,   \* tosc_write: the format string (without its NUL)
  args,     \* tosc_write: the variadic arguments, one record per b/f/i/s tag
  wret,     \* tosc_write: the value returned
  wi,       \* tosc_write: the offset i when the function stopped
  wap,      \* tosc_write: the number of va_arg calls made
  woffs,    \* tosc_write: the offset i at which each format tag was reached
  woob,     \* tosc_write: some byte was stored at an offset >= cap
  len,      \* tosc_read: len, kept in o->len
  rret,     \* tosc_read: the value returned
  fmtOff,   \* o->format - buffer
  marker,   \* o->marker - buffer
  fpos,     \* the caller's index into the decoded format string
  last,     \* what the latest extractor call returned, and the marker before it
  ncalls,   \* the number of extractor calls made
  oobRead   \* some extractor read a byte at an offset outside [0, len)

vars == <<pc, driven, mem, junk, cap, address, format, args, wret, wi, wap,
          woffs, woob, len, rret, fmtOff, marker, fpos, last, ncalls, oobRead>>

wvars == <<cap, address, format, args, wret, wi, wap, woffs, woob>>

-----------------------------------------------------------------------------
(* Bounds of the model *)

MaxCap == 20
MaxFmt == 2
MaxLen == 8
MaxCalls == 2

-----------------------------------------------------------------------------
(* Bytes and return codes of the source *)

NUL == 0
COMMA == 44
TAG_b == 98
TAG_f == 102
TAG_i == 105
TAG_s == 115
TAG_T == 84
TAG_F == 70
TAG_N == 78
TAG_I == 73
TAG_x == 120

READ_NO_COMMA == -1
READ_NO_NUL == -2
WRITE_ADDRESS == -1
WRITE_FORMAT == -2
WRITE_ARGUMENT == -3
WRITE_TAG == -4

MaxInt32 == 2147483647

\* x & ~0x3 on a two's complement int
Align4(x) == (x \div 4) * 4

\* a + n in uint32_t, a a small non-negative int, n a 32-bit pattern
AddWrap32(a, n) ==
  IF n > 0 /\ a > MaxInt32 - n
    THEN ((a - MaxInt32) - 1) + ((n - MaxInt32) - 1)
    ELSE a + n

\* x > y as uint32_t values, x and y 32-bit patterns
UGt(x, y) == IF (x < 0) = (y < 0) THEN x > y ELSE x < 0

\* htonl left out: the word stored in host (little-endian) order
HostOrder(k) ==
  << k % 256, (k \div 256) % 256, (k \div 65536) % 256, (k \div 16777216) % 256 >>

\* the memory image of htonl(k) for a 32-bit pattern k: most significant first
htonl(k) ==
  << (k \div 16777216) % 256, (k \div 65536) % 256, (k \div 256) % 256, k % 256 >>

\* (int32_t) ntohl(word) for the four bytes w found in memory
ntohl(w) ==
  (IF w[1] >= 128 THEN w[1] - 256 ELSE w[1]) * 16777216
    + w[2] * 65536 + w[3] * 256 + w[4]

-----------------------------------------------------------------------------
(* tosc_write *)

\* the stores of strcpy / memcpy / a word store that land in known memory
PutSeq(m, off, s) ==
  [k \in DOMAIN m |->
     IF k >= off /\ k < off + Len(s) THEN s[(k - off) + 1] ELSE m[k]]

\* memset(buffer, 0, len)
Memset0(m, n) == [k \in DOMAIN m |-> IF k < n THEN NUL ELSE m[k]]

\* line 92: the address with its terminator must fit
AddressTooLong(i, n) == i >= n

\* line 97 with > for >=: the terminator of the format is not counted
FormatTooLongNoNul(i, s_len, n) == (i + s_len) > n

\* line 97: the format with its terminator must fit after the comma
FormatTooLong(i, s_len, n) == (i + s_len) >= n

\* line 105: i + 4 + n > len, computed in uint32_t
BlobOverflow(i, n, length) == UGt(AddWrap32(i + 4, n), length)

\* lines 113 and 120: i + 4 > len
WordOverflow(i, length) == i + 4 > length

\* line 129: i + s_len >= len
StringOverflow(i, s_len, length) == i + s_len >= length

\* lines 94, 99, 131: (i + 4 + s_len) & ~0x3 for a string of s_len bytes at i
AfterString(i, s_len) == Align4(i + 4 + s_len)

\* lines 107-109: i += 4; i = (i + 3 + n) & ~0x3
AfterBlob(i, n) == Align4((i + 4) + 3 + n)

\* a store of the bytes s at off: the memory after it, and whether it left [0, n)
Store(st, n, off, s) ==
  [st EXCEPT !.mem = PutSeq(@, off, s),
             !.oob = @ \/ (Len(s) > 0 /\ (off < 0 \/ off + Len(s) > n))]

\* memcpy(buffer+i, b, n) with n >= 2^31 as size_t: it runs over all memory
\* there is, reading past the end of the blob's data
Overrun(st, off, data, fill) ==
  [st EXCEPT !.mem = [k \in DOMAIN @ |->
                        IF k < off THEN @[k]
                        ELSE IF k - off < Len(data) THEN data[(k - off) + 1]
                        ELSE fill],
             !.oob = TRUE]

RECURSIVE WriteArgs(_, _, _, _, _, _)
\* lines 101-144: the loop over the format, from tag j with next argument a
WriteArgs(st0, n, fmt, as, j, fill) ==
  IF j > Len(fmt) THEN [st0 EXCEPT !.ret = st0.i]
  ELSE
    LET st == [st0 EXCEPT !.offs = Append(@, st0.i)]
        i == st.i
        a == st.ai
    IN
    CASE fmt[j] = TAG_b ->
           IF BlobOverflow(i, as[a].n, n)
             THEN [st EXCEPT !.ret = WRITE_ARGUMENT, !.ap = @ + 1]
           ELSE IF as[a].n < 0
             THEN [Overrun(Store(st, n, i, htonl(as[a].n)), i + 4, as[a].data, fill)
                     EXCEPT !.fault = TRUE, !.ap = @ + 2, !.i = i + 4]
           ELSE WriteArgs(
                  [Store(Store(st, n, i, htonl(as[a].n)),
                         n, i + 4, SubSeq(as[a].data, 1, as[a].n))
                     EXCEPT !.i = AfterBlob(i, as[a].n), !.ap = @ + 2, !.ai = @ + 1],
                  n, fmt, as, j + 1, fill)
      [] fmt[j] \in {TAG_f, TAG_i} ->
           IF WordOverflow(i, n)
             THEN [st EXCEPT !.ret = WRITE_ARGUMENT]
           ELSE WriteArgs(
                  [Store(st, n, i, htonl(as[a].n))
                     EXCEPT !.i = i + 4, !.ap = @ + 1, !.ai = @ + 1],
                  n, fmt, as, j + 1, fill)
      [] fmt[j] = TAG_s ->
           IF StringOverflow(i, Len(as[a].data), n)
             THEN [st EXCEPT !.ret = WRITE_ARGUMENT, !.ap = @ + 1]
           ELSE WriteArgs(
                  [Store(st, n, i, as[a].data \o <<NUL>>)
                     EXCEPT !.i = AfterString(i, Len(as[a].data)),
                            !.ap = @ + 1, !.ai = @ + 1],
                  n, fmt, as, j + 1, fill)
      [] fmt[j] \in {TAG_T, TAG_F, TAG_N, TAG_I} ->
           WriteArgs(st, n, fmt, as, j + 1, fill)
      [] OTHER -> [st EXCEPT !.ret = WRITE_TAG]

\* lines 85-145: the whole call, as the record of what it did
WriteResult(m, n, addr, fmt, as, fill) ==
  LET st0 == [mem |-> Memset0(m, n), i |-> Len(addr), ret |-> 0,
              ap |-> 0, ai |-> 1, offs |-> << >>, oob |-> FALSE, fault |-> FALSE]
  IN
  IF AddressTooLong(Len(addr), n) THEN [st0 EXCEPT !.ret = WRITE_ADDRESS]
  ELSE
    LET st1 == Store(st0, n, 0, addr \o <<NUL>>)
        A   == AfterString(Len(addr), 0)
        st2 == [Store(st1, n, A, <<COMMA>>) EXCEPT !.i = A + 1]
    IN
    IF FormatTooLong(A + 1, Len(fmt), n) THEN [st2 EXCEPT !.ret = WRITE_FORMAT]
    ELSE
      LET st3 == [Store(st2, n, A + 1, fmt \o <<NUL>>)
                    EXCEPT !.i = AfterString(A + 1, Len(fmt))]
      IN WriteArgs(st3, n, fmt, as, 1, fill)

-----------------------------------------------------------------------------
(* tosc_read *)

RECURSIVE ScanFor(_, _, _, _)
\* lines 31 and 37: while (i < len && buffer[i] != byte) ++i
ScanFor(m, i, n, byte) ==
  IF i < n /\ m[i] # byte THEN ScanFor(m, i + 1, n, byte) ELSE i

\* line 40 rounding up from the NUL itself: no byte kept for the NUL when z is
\* a multiple of 4
ArgumentStartAtNul(z) == Align4(z + 3)

\* line 40: advance to the next multiple of 4 after the trailing NUL at z
ArgumentStart(z) == Align4(z + 4)

\* lines 33 and 38 one byte short: the last byte of the buffer is not looked at
ScanFailedEarly(i, n) == i + 1 >= n

\* lines 33 and 38: the scan ran to the end of the buffer
ScanFailed(i, n) == i = n

\* lines 25-47: the value returned and the fields of o the call sets
ReadResult(m, n, o) ==
  LET c == ScanFor(m, 0, n, COMMA) IN
  IF ScanFailed(c, n) THEN [o EXCEPT !.ret = READ_NO_COMMA]
  ELSE
    LET z == ScanFor(m, c, n, NUL) IN
    IF ScanFailed(z, n) THEN [o EXCEPT !.ret = READ_NO_NUL, !.format = c + 1]
    ELSE [o EXCEPT !.ret = 0, !.format = c + 1, !.marker = ArgumentStart(z)]

-----------------------------------------------------------------------------
(* The extractors *)

\* the byte a read at off finds: memory outside what the model knows holds the
\* byte j
ByteAt(off, j) == IF off \in DOMAIN mem THEN mem[off] ELSE j

\* *((uint32_t *) o->marker): the four bytes in memory at off
WordAt(off, j) ==
  <<ByteAt(off, j), ByteAt(off + 1, j), ByteAt(off + 2, j), ByteAt(off + 3, j)>>

\* the offsets off .. off+n-1 are not all inside the buffer [0, len)
OutOfBuffer(off, n) == off < 0 \/ off + n > len

\* the offsets off .. off+n-1 are not all in the memory the model knows
Unknown(off, n) == \E k \in 0..(n - 1) : (off + k) \notin DOMAIN mem

\* what junk is known to be once a read of off .. off+n-1 has found j there
Seen(off, n, j) == IF Unknown(off, n) THEN {j} ELSE junk

\* the longest run strlen follows through memory that holds no NUL
StrlenFuel == Cardinality(DOMAIN mem) + 4

RECURSIVE StrlenFrom(_, _, _)
\* strlen(off): the scan for the NUL, from its k-th byte on
StrlenFrom(off, k, j) ==
  IF ByteAt(off + k, j) # NUL /\ k < StrlenFuel
    THEN StrlenFrom(off, k + 1, j) ELSE k

strlen(off, j) == StrlenFrom(off, 0, j)

\* line 65 with > for >=: a NUL just past the buffer counts as inside it
StringTruncatedOffByOne(m, i, n) == m + i > n

\* line 65: o->marker + i >= o->address + o->len
StringTruncated(m, i, n) == m + i >= n

\* line 67: (i + 4) & ~0x3
StringAdvance(i) == Align4(i + 4)

\* line 74: o->marker + 4 + i <= o->buffer + o->len (pointer arithmetic, so no
\* 32-bit wrap; written with the large term alone on its side)
BlobFits(m, i, n) == i <= (n - m) - 4

\* line 77 with the padding rule of strings applied to the blob's data
BlobAdvanceAsString(i) == Align4(i + 4)

\* line 77: (i + 7) & ~0x3
BlobAdvance(i) == Align4(i + 7)

\* the caller's loop over o->format (tosc_printOscBuffer, lines 158-177), or a
\* caller that calls what it likes
MayCall(tag) ==
  IF driven THEN (fmtOff + fpos) \in DOMAIN mem /\ mem[fmtOff + fpos] = tag
            ELSE ncalls < MaxCalls

Result(op, before, null, ptr, n) ==
  [op |-> op, before |-> before, null |-> null, ptr |-> ptr, n |-> n]

\* lines 49-54
tosc_getNextInt32 ==
  /\ pc = "read"
  /\ MayCall(TAG_i)
  /\ \E j \in junk :
       /\ last' = Result("int32", marker, FALSE, 0, ntohl(WordAt(marker, j)))
       /\ junk' = Seen(marker, 4, j)
  /\ marker' = marker + 4
  /\ oobRead' = (oobRead \/ OutOfBuffer(marker, 4))
  /\ fpos' = fpos + 1
  /\ ncalls' = ncalls + 1
  /\ UNCHANGED <<pc, driven, mem, len, rret, fmtOff>>
  /\ UNCHANGED wvars

\* lines 56-61: the float is kept as its 32-bit pattern
tosc_getNextFloat ==
  /\ pc = "read"
  /\ MayCall(TAG_f)
  /\ \E j \in junk :
       /\ last' = Result("float", marker, FALSE, 0, ntohl(WordAt(marker, j)))
       /\ junk' = Seen(marker, 4, j)
  /\ marker' = marker + 4
  /\ oobRead' = (oobRead \/ OutOfBuffer(marker, 4))
  /\ fpos' = fpos + 1
  /\ ncalls' = ncalls + 1
  /\ UNCHANGED <<pc, driven, mem, len, rret, fmtOff>>
  /\ UNCHANGED wvars

\* lines 63-70
tosc_getNextString ==
  /\ pc = "read"
  /\ MayCall(TAG_s)
  /\ \E j \in junk : \E i \in {strlen(marker, j)} :
       /\ junk' = Seen(marker, i + 1, j)
       /\ oobRead' = (oobRead \/ OutOfBuffer(marker, i + 1))
       /\ IF StringTruncated(marker, i, len)
            THEN /\ last' = Result("string", marker, TRUE, 0, 0)
                 /\ marker' = marker
            ELSE /\ last' = Result("string", marker, FALSE, marker, i)
                 /\ marker' = marker + StringAdvance(i)
  /\ fpos' = fpos + 1
  /\ ncalls' = ncalls + 1
  /\ UNCHANGED <<pc, driven, mem, len, rret, fmtOff>>
  /\ UNCHANGED wvars

\* lines 72-83
tosc_getNextBlob ==
  /\ pc = "read"
  /\ MayCall(TAG_b)
  /\ \E j \in junk : \E i \in {ntohl(WordAt(marker, j))} :
       /\ junk' = Seen(marker, 4, j)
       /\ IF BlobFits(marker, i, len)
            THEN /\ last' = Result("blob", marker, FALSE, marker + 4, i)
                 /\ marker' = marker + BlobAdvance(i)
            ELSE /\ last' = Result("blob", marker, TRUE, 0, 0)
                 /\ marker' = marker
  /\ oobRead' = (oobRead \/ OutOfBuffer(marker, 4))
  /\ fpos' = fpos + 1
  /\ ncalls' = ncalls + 1
  /\ UNCHANGED <<pc, driven, mem, len, rret, fmtOff>>
  /\ UNCHANGED wvars

\* lines 171-174: a tag that carries no bytes; the caller calls no extractor
SkipTag ==
  /\ pc = "read"
  /\ driven
  /\ (fmtOff + fpos) \in DOMAIN mem
  /\ mem[fmtOff + fpos] \in {TAG_T, TAG_F, TAG_N, TAG_I}
  /\ fpos' = fpos + 1
  /\ UNCHANGED <<pc, driven, mem, junk, len, rret, fmtOff, marker, last, ncalls,
                 oobRead>>
  /\ UNCHANGED wvars

\* line 158: the loop ends at the NUL of the format
EndOfFormat ==
  /\ pc = "read"
  /\ driven
  /\ (fmtOff + fpos) \in DOMAIN mem
  /\ mem[fmtOff + fpos] = NUL
  /\ pc' = "done"
  /\ UNCHANGED <<driven, mem, junk, len, rret, fmtOff, marker, fpos, last, ncalls,
                 oobRead>>
  /\ UNCHANGED wvars

\* lines 25-47
tosc_read ==
  /\ pc = "ready"
  /\ \E r \in {ReadResult(mem, len, [ret |-> rret, format |-> fmtOff,
                                      marker |-> marker])} :
        /\ rret' = r.ret
        /\ fmtOff' = r.format
        /\ marker' = r.marker
        /\ pc' = IF r.ret = 0 THEN "read" ELSE "rejected"
  /\ UNCHANGED <<driven, mem, junk, len, fpos, last, ncalls, oobRead>>
  /\ UNCHANGED wvars

\* lines 85-145, and the caller handing the n bytes written to tosc_read
tosc_write ==
  /\ pc = "start"
  /\ \E j \in junk : \E r \in {WriteResult(mem, cap, address, format, args, j)} :
        /\ mem' = r.mem
        /\ wret' = r.ret
        /\ wi' = r.i
        /\ wap' = r.ap
        /\ woffs' = r.offs
        /\ woob' = r.oob
        /\ pc' = IF r.fault THEN "fault" ELSE IF r.ret >= 0 THEN "ready" ELSE "failed"
        /\ len' = IF ~r.fault /\ r.ret >= 0 THEN r.ret ELSE len
  /\ UNCHANGED <<driven, junk, cap, address, format, args, rret, fmtOff, marker,
                 fpos, last, ncalls, oobRead>>

-----------------------------------------------------------------------------
(* The inputs *)

MemSize == MaxCap + 4

\* "/a", "/ab", "/abc" and "/button1"
Addresses == { <<47, 97>>, <<47, 97, 98>>, <<47, 97, 98, 99>>,
               <<47, 98, 117, 116, 116, 111, 110, 49>> }

\* the float 0.5: the pattern 0x3F000000
Half == 63 * 16777216

Arg(tag, n, data) == [tag |-> tag, n |-> n, data |-> data]

\* a format tag with the argument passed for it
Items ==
  { Arg(TAG_i, 44, << >>), Arg(TAG_i, 0 - 2, << >>),
    Arg(TAG_f, Half, << >>),
    Arg(TAG_s, 0, << >>), Arg(TAG_s, 0, <<104, 105>>),
    Arg(TAG_s, 0, <<97, 44, 99, 100>>),
    Arg(TAG_b, 0, << >>), Arg(TAG_b, 3, <<1, 0, 44>>),
    Arg(TAG_b, 4, <<255, 2, 3, 4>>), Arg(TAG_b, 0 - 1, << >>),
    Arg(TAG_b, 0 - 8, << >>),
    Arg(TAG_T, 0, << >>), Arg(TAG_F, 0, << >>), Arg(TAG_N, 0, << >>),
    Arg(TAG_I, 0, << >>), Arg(TAG_x, 0, << >>) }

ArgTags == {TAG_b, TAG_f, TAG_i, TAG_s}
HasArg(it) == it.tag \in ArgTags

ItemSeqs == UNION { [1..n -> Items] : n \in 0..MaxFmt }

JunkBytes == {0, 255}

NoResult == Result("none", 0, TRUE, 0, 0)

Init ==
  /\ pc = "start"
  /\ driven = TRUE
  /\ \E j \in JunkBytes :
       /\ junk = {j}
       /\ mem = [k \in 0..(MemSize - 1) |-> j]
  /\ cap \in 0..MaxCap
  /\ address \in Addresses
  /\ \E its \in ItemSeqs :
       /\ format = [k \in 1..Len(its) |-> its[k].tag]
       /\ args = SelectSeq(its, HasArg)
  /\ wret = 0 /\ wi = 0 /\ wap = 0 /\ woffs = << >> /\ woob = FALSE
  /\ len = 0 /\ rret = 0 /\ fmtOff = 0 /\ marker = 0
  /\ fpos = 0 /\ last = NoResult /\ ncalls = 0 /\ oobRead = FALSE

Next ==
  \/ tosc_write
  \/ tosc_read
  \/ tosc_getNextInt32
  \/ tosc_getNextFloat
  \/ tosc_getNextString
  \/ tosc_getNextBlob
  \/ SkipTag
  \/ EndOfFormat

Spec == Init /\ [][Next]_vars

\* a received datagram: any bytes, of any length; what lies around it is junk
DecodeBytes == {0, COMMA, 255}

InitDecode ==
  /\ pc = "ready"
  /\ driven = FALSE
  /\ junk = JunkBytes
  /\ len \in 0..MaxLen
  /\ mem \in [0..(len - 1) -> DecodeBytes]
  /\ cap = 0 /\ address = << >> /\ format = << >> /\ args = << >>
  /\ wret = 0 /\ wi = 0 /\ wap = 0 /\ woffs = << >> /\ woob = FALSE
  /\ rret = 0 /\ fmtOff = 0 /\ marker = 0
  /\ fpos = 0 /\ last = NoResult /\ ncalls = 0 /\ oobRead = FALSE

NextDecode ==
  \/ tosc_read
  \/ tosc_getNextInt32
  \/ tosc_getNextFloat
  \/ tosc_getNextString
  \/ tosc_getNextBlob

SpecDecode == InitDecode /\ [][NextDecode]_vars

-----------------------------------------------------------------------------
(* What the claims speak of *)

\* tosc_write has returned a byte count
Written == pc \in {"ready", "read", "rejected", "done"}

\* tosc_write has run
WriteOver == pc # "start"

\* tosc_read has run
ReadOver == pc \in {"read", "rejected", "done"}

AnyJunk == CHOOSE j \in junk : TRUE

\* the C string at off, as the caller reads it through the pointer
CStr(off) == [k \in 1..strlen(off, AnyJunk) |-> ByteAt((off + k) - 1, AnyJunk)]

\* n bytes at off, as the caller reads them through the pointer
BytesFrom(off, n) == [k \in 1..n |-> ByteAt((off + k) - 1, AnyJunk)]

\* n NUL bytes
Zeros(n) == [k \in 1..n |-> NUL]

\* x rounded down to a multiple of 4, by arithmetic
Down4(x) == x - (x % 4)

\* the four bytes of a 32-bit value, most significant first
BigEndian(k) ==
  LET u3 == IF k < 0 THEN (k \div 16777216) + 256 ELSE k \div 16777216
  IN << u3, (k % 16777216) \div 65536, (k % 65536) \div 256, k % 256 >>

\* an OSC string: the bytes, a NUL, and NULs up to the next multiple of 4
OscString(str) == str \o Zeros(Down4(Len(str) + 4) - Len(str))

\* an OSC blob: the length, the data, and NULs up to a multiple of 4
OscBlob(n, data) == BigEndian(n) \o data \o Zeros(Down4(n + 3) - n)

\* the tags of fmt that carry an argument
ArgTagsOf(fmt) == SelectSeq(fmt, LAMBDA t : t \in ArgTags)

\* the number of arguments the first k tags of the format take
ArgsBefore(k) == Len(ArgTagsOf(SubSeq(format, 1, k)))

RECURSIVE ArgsWire(_, _)
\* the wire bytes of the arguments as, whose tags are ts
ArgsWire(ts, as) ==
  IF ts = << >> THEN << >>
  ELSE (CASE Head(ts) = TAG_s -> OscString(Head(as).data)
          [] Head(ts) = TAG_b -> OscBlob(Head(as).n, Head(as).data)
          [] OTHER -> BigEndian(Head(as).n))
       \o ArgsWire(Tail(ts), Tail(as))

\* the OSC 1.0 message for the inputs of tosc_write
Wire == OscString(address) \o OscString(<<COMMA>> \o format)
          \o ArgsWire(ArgTagsOf(format), args)

\* the result r of an extractor is the argument a written for tag t
ResultIs(r, t, a) ==
  CASE t = TAG_i -> r.op = "int32" /\ r.n = a.n
    [] t = TAG_f -> r.op = "float" /\ r.n = a.n
    [] t = TAG_s -> r.op = "string" /\ ~r.null /\ CStr(r.ptr) = a.data
    [] t = TAG_b -> r.op = "blob" /\ ~r.null /\ r.n = a.n
                      /\ BytesFrom(r.ptr, r.n) = a.data
    [] OTHER -> FALSE

\* C1: when tosc_write succeeds with n, tosc_read over n bytes returns 0, the
\* address and the format read back are the ones written, and the extractor
\* for each tag, called in format order, returns the argument written for it.
C1_RoundTrip ==
  (driven /\ ReadOver) =>
    /\ rret = 0
    /\ CStr(0) = address
    /\ CStr(fmtOff) = format
    /\ ncalls <= Len(args)
    /\ ncalls = ArgsBefore(fpos)
    /\ (ncalls > 0 => ResultIs(last, ArgTagsOf(format)[ncalls], args[ncalls]))
    /\ (pc = "done" => fpos = Len(format) /\ ncalls = Len(args))

C1_Witness ==
  /\ driven /\ pc = "done"
  /\ format = <<TAG_s, TAG_b>>
  /\ args[1].data = <<104, 105>>
  /\ args[2].n = 3
  /\ last.op = "blob"

\* the length prefix the latest tosc_getNextBlob call read
LastPrefix == ntohl(WordAt(last.before, AnyJunk))

\* C2: once tosc_read has succeeded, no extractor call reads a byte at an
\* offset outside [0, length), and a truncated string or blob gives NULL.
C2_DecodeInBounds ==
  (~driven /\ pc = "read") =>
    /\ ~oobRead
    /\ (last.op = "string"
          /\ last.before + strlen(last.before, AnyJunk) >= len) => last.null
    /\ (last.op = "blob" /\ LastPrefix > (len - last.before) - 4) => last.null

\* C3: every successful extraction leaves the marker at or after where it
\* was, and at or before the end of the buffer.
C3_CursorMonotoneBounded ==
  (~driven /\ pc = "read" /\ ncalls > 0 /\ ~last.null) =>
    /\ marker >= last.before
    /\ marker <= len

\* the buffer [0, len) holds a comma
HasComma == \E k \in 0..(len - 1) : mem[k] = COMMA

\* the offset of the first comma of the buffer
FirstComma ==
  CHOOSE k \in 0..(len - 1) :
    mem[k] = COMMA /\ \A h \in 0..(k - 1) : mem[h] # COMMA

\* the buffer holds a NUL between its first comma and its end
HasNulAfterComma == \E k \in FirstComma..(len - 1) : mem[k] = NUL

\* the offset of the first NUL at or after the first comma
FirstNul ==
  CHOOSE k \in FirstComma..(len - 1) :
    mem[k] = NUL /\ \A h \in FirstComma..(k - 1) : mem[h] # NUL

\* C4: tosc_read returns -1 exactly when [0, length) holds no comma, -2
\* exactly when it holds a comma and no NUL from the first comma on, and 0
\* in every other case.
C4_EnvelopeErrors ==
  (~driven /\ ReadOver) =>
    /\ (rret = -1) = ~HasComma
    /\ (rret = -2) = (HasComma /\ ~HasNulAfterComma)
    /\ (rret = 0) = (HasComma /\ HasNulAfterComma)

C4_Witness ==
  ~driven /\ pc = "rejected" /\ rret = -2 /\ len = MaxLen /\ mem[len - 1] = COMMA

\* C5: a tosc_getNextBlob whose length prefix L has cursor + 4 + L beyond the
\* buffer length returns (NULL, 0), a tosc_getNextString whose NUL lies at or
\* beyond the buffer end returns NULL, and both leave the marker where it was.
C5_FailureKeepsCursor ==
  (~driven /\ pc = "read") =>
    /\ (last.op = "blob" /\ LastPrefix > (len - last.before) - 4) =>
         (last.null /\ last.n = 0 /\ marker = last.before)
    /\ (last.op = "string"
          /\ last.before + strlen(last.before, AnyJunk) >= len) =>
         (last.null /\ marker = last.before)

C5_Witness ==
  /\ ~driven /\ pc = "read" /\ ncalls = 2
  /\ last.op = "blob" /\ last.null
  /\ last.before + 4 <= len
  /\ LastPrefix = COMMA
  /\ marker = last.before

\* C6: on success the buffer holds the address, NULs up to A = (a+4) & ~3,
\* the comma at A, the format, NULs up to S = (A+1+f+4) & ~3, then every
\* argument in format order in its 4-byte aligned encoding; every other byte
\* below capacity is 0 and the value returned is the offset after the last
\* argument's padding.  "/button1", "f", 0.5 gives "/button1" 4 NULs ",f"
\* 2 NULs 3F 00 00 00.
C6_WireLayout ==
  (driven /\ Written) =>
    /\ wret = Len(Wire)
    /\ \A k \in 0..(cap - 1) :
         mem[k] = IF k < Len(Wire) THEN Wire[k + 1] ELSE NUL
    /\ mem[Down4(Len(address) + 4)] = COMMA
    /\ ((address = <<47, 98, 117, 116, 116, 111, 110, 49>>
           /\ format = <<TAG_f>> /\ args[1].n = Half) =>
         (wret = 20 /\
          BytesFrom(0, 20) = <<47, 98, 117, 116, 116, 111, 110, 49, 0, 0, 0, 0,
                               44, 102, 0, 0, 63, 0, 0, 0>>))

C6_Witness ==
  /\ driven /\ pc = "ready" /\ cap = 20
  /\ address = <<47, 98, 117, 116, 116, 111, 110, 49>>
  /\ format = <<TAG_f>>
  /\ mem[16] = 63

\* the argument for the k-th tag of the format does not fit at woffs[k]
DoesNotFit(k) ==
  LET a == args[ArgsBefore(k)] IN
  CASE format[k] = TAG_b -> a.n < 0 \/ woffs[k] + 4 + a.n > cap
    [] format[k] \in {TAG_f, TAG_i} -> woffs[k] + 4 > cap
    [] format[k] = TAG_s -> woffs[k] + Len(a.data) + 1 > cap
    [] OTHER -> FALSE

\* no byte at or after off has been written since the buffer was cleared
UntouchedFrom(off) ==
  \A k \in DOMAIN mem :
    k >= off => mem[k] = IF k < cap THEN NUL ELSE AnyJunk

\* C7: when the argument of a b, f, i or s tag reached at offset i does not
\* fit in the remaining capacity, tosc_write returns -3 and writes no byte of
\* that argument.
C7_ArgumentOverflow ==
  (driven /\ WriteOver) =>
    \A k \in 1..Len(woffs) :
      DoesNotFit(k) =>
        (pc = "failed" /\ wret = WRITE_ARGUMENT /\ UntouchedFrom(woffs[k]))

\* C8: when the address is shorter than the capacity and its padded length
\* plus the comma leaves no room for the NUL of the format, tosc_write
\* returns -2, takes no argument and writes no argument byte.
C8_FormatOverflow ==
  (driven /\ WriteOver /\ Len(address) < cap
     /\ Down4(Len(address) + 4) + 1 >= cap) =>
    /\ pc = "failed"
    /\ wret = -2
    /\ wap = 0
    /\ \A k \in 0..(cap - 1) :
         mem[k] = IF k < Len(address) THEN address[k + 1]
                  ELSE IF k = Down4(Len(address) + 4) THEN COMMA ELSE NUL

C8_Witness ==
  /\ driven /\ pc = "failed" /\ wret = -2
  /\ Len(address) = 2 /\ cap = 5 /\ Len(args) = 2 /\ mem[4] = COMMA

\* C9: when tosc_read returns 0 the marker starts at (z + 4) & ~3, z the
\* offset of the first NUL at or after the first comma: a multiple of 4
\* strictly greater than z.
C9_ArgumentStart ==
  (~driven /\ pc = "read" /\ ncalls = 0) =>
    /\ marker = Down4(FirstNul + 4)
    /\ marker % 4 = 0
    /\ marker > FirstNul
    /\ fmtOff = FirstComma + 1

C9_Witness ==
  ~driven /\ pc = "read" /\ ncalls = 0 /\ FirstNul = 4 /\ marker = 8

\* C10: tosc_write never stores a byte at an offset >= capacity, whether it
\* succeeds or fails.
C10_WriteInBounds == driven => ~woob

====
